---------------------------- MODULE Spec2Model ----------------------------
(***************************************************************************)
(* Model of the customer-support agent (Yahya305/Agent2.0):                *)
(*   - the response parser and final-answer cleaner (agent/nodes.py,       *)
(*     utils/response_extractor.py),                                       *)
(*   - the agent decision loop and tool node (agent/nodes.py,              *)
(*     agent/workflow.py),                                                 *)
(*   - the semantic memory tools (tools/memory.py, api/memories).          *)
(*                                                                         *)
(* Text is a sequence of tokens.  A token is either one character class    *)
(* (" " a non-newline whitespace character, "\n" a newline, "x" a          *)
(* non-whitespace character) or one of the literal markers the regular     *)
(* expressions of the code look for ("Action:", "Action Input:",           *)
(* "Final Answer:", "Thought:", and "FENCE" for a code fence of three     *)
(* backquotes).  A marker begins and ends with a non-whitespace character  *)
(* and holds no newline.                                                   *)
(***************************************************************************)
EXTENDS Integers, Sequences, FiniteSets, TLC

VARIABLES
    content,        \* text handed to the parser / the cleaner
    action_info,    \* result of parse_action_from_response(content)
    clean_answer,   \* result of extract_final_answer(content)
    clean_again,    \* result of extract_final_answer(clean_answer)
    use_streaming,  \* workflow.py: which agent node the graph was built with
    pc,             \* the graph node that runs next: agent, tool_node, END, raised
    messages,       \* AgentState["messages"]
    next_action,    \* AgentState["next_action"]
    actions,        \* AgentState["actions"]
    llm_calls,      \* calls of the model backend in this turn (invoke and stream)
    last,           \* the node that ran last, what it was given and what it met
    store,          \* the rows of table semantic_memories
    next_id,        \* the next value of the table's id sequence
    clock,          \* the database clock, NOW()
    mem_last,       \* the memory call that ran last: its input, the user_id its
                    \* statement ran with, its result, the table before it
    running,        \* the memory tool call each caller thread is in the middle of
    conn,           \* the tools' one database connection: the UPDATEs it ran,
                    \* in order, and the table as of its last commit
    threads         \* the checkpointed AgentState of each conversation thread
                    \* and the node run it is in the middle of

textVars == <<content, action_info, clean_answer, clean_again>>

loopVars == <<use_streaming, pc, messages, next_action, actions, llm_calls, last>>

memVars == <<store, next_id, clock, mem_last>>

concVars == <<running, conn, threads>>

vars == <<content, action_info, clean_answer, clean_again,
          use_streaming, pc, messages, next_action, actions, llm_calls, last,
          store, next_id, clock, mem_last, running, conn, threads>>

-----------------------------------------------------------------------------
(* Bounds                                                                   *)

MaxLen == 5          \* longest text handed to the parser or the cleaner

MaxCalls == 3        \* model invocations explored in one user turn

MaxActions == 2      \* longest pending-action list handed to tool_node alone

MaxWrites == 2       \* store_memory / update_memory calls that reach the table

MaxK == 2            \* largest top_k asked of retrieve_memory

MaxThreadCalls == 2  \* model invocations of each of two concurrent threads

-----------------------------------------------------------------------------
(* Text                                                                     *)

Markers == {"Action:", "Action Input:", "Final Answer:", "Thought:", "FENCE"}

ParserAlphabet == {"Action:", "Action Input:", " ", "\n", "x"}

CleanerAlphabet == {"Final Answer:", "Thought:", "FENCE", " ", "\n", "x"}

\* \s of the re module and the characters str.strip() removes
IsSpace(c) == c \in {" ", "\n"}

\* "." of the re module without re.DOTALL: any character but a newline
IsDot(c) == c # "\n"

Texts(alphabet, n) == UNION {[1..k -> alphabet] : k \in 0..n}

Has(s, tok) == \E i \in 1..Len(s) : s[i] = tok

\* str.strip(): drop the leading and trailing whitespace
strip(s) ==
    LET keep == {i \in 1..Len(s) : ~IsSpace(s[i])}
        lo == CHOOSE i \in keep : \A j \in keep : i <= j
        hi == CHOOSE i \in keep : \A j \in keep : i >= j
    IN  IF keep = {} THEN <<>> ELSE SubSeq(s, lo, hi)

IsTrimmed(s) == s = <<>> \/ (~IsSpace(s[1]) /\ ~IsSpace(s[Len(s)]))

NoMatch == [found |-> FALSE, group |-> <<>>]

\* length of the whitespace run of s that starts at index i
RECURSIVE SpaceRun(_, _)
SpaceRun(s, i) ==
    IF i > Len(s) \/ ~IsSpace(s[i]) THEN 0 ELSE 1 + SpaceRun(s, i + 1)

\* last index of the run of "." characters of s that starts at index i
RECURSIVE DotRunEnd(_, _, _)
DotRunEnd(s, i, dotall) ==
    IF i + 1 > Len(s) \/ ~(dotall \/ IsDot(s[i + 1])) THEN i
    ELSE DotRunEnd(s, i + 1, dotall)

\* The match of  marker\s*(.+)  with the marker at index p of s: \s* is
\* greedy and gives characters back one at a time, (.+) needs one character
\* that "." accepts and then runs as far as "." accepts.
MatchAt(s, p, dotall) ==
    LET w == SpaceRun(s, p + 1)
        ok == {j \in 0..w : p + j + 1 <= Len(s)
                            /\ (dotall \/ IsDot(s[p + j + 1]))}
        j == CHOOSE k \in ok : \A l \in ok : l <= k
    IN  IF ok = {} THEN NoMatch
        ELSE [found |-> TRUE,
              group |-> SubSeq(s, p + j + 1, DotRunEnd(s, p + j + 1, dotall))]

\* re.search(marker + r"\s*(.+)", s, flags): the leftmost position that matches
Search(marker, s, dotall) ==
    LET hits == {p \in 1..Len(s) : s[p] = marker /\ MatchAt(s, p, dotall).found}
        p == CHOOSE q \in hits : \A r \in hits : q <= r
    IN  IF hits = {} THEN NoMatch ELSE MatchAt(s, p, dotall)

-----------------------------------------------------------------------------
(* agent/nodes.py: parse_action_from_response                               *)

Unset == [st |-> "unset", action |-> <<>>, action_input |-> <<>>]

None == [st |-> "none", action |-> <<>>, action_input |-> <<>>]

\* the mutant: the two groups are returned as matched, without .strip()
parse_action_unstripped(c) ==
    LET action_match == Search("Action:", c, FALSE)
        input_match == Search("Action Input:", c, FALSE)
    IN  IF action_match.found /\ input_match.found
        THEN [st |-> "dict",
              action |-> action_match.group,
              action_input |-> input_match.group]
        ELSE None

parse_action_from_response(c) ==
    LET action_match == Search("Action:", c, FALSE)
        input_match == Search("Action Input:", c, FALSE)
    IN  IF action_match.found /\ input_match.found
        THEN [st |-> "dict",
              action |-> strip(action_match.group),
              action_input |-> strip(input_match.group)]
        ELSE None

-----------------------------------------------------------------------------
(* utils/response_extractor.py: extract_final_answer                        *)

NotRun == [st |-> "unset", value |-> <<>>]

Raised == [st |-> "raised", value |-> <<>>]

Returned(v) == [st |-> "returned", value |-> v]

\* Line 16 formats final_answer_match.group(1) for the log before line 17
\* tests the match: with no match that is None.group(1), an AttributeError.
\* Lines 20-25 (code-block and Thought removal) are therefore never reached.
extract_final_answer(c) ==
    LET final_answer_match == Search("Final Answer:", c, TRUE)
    IN  IF ~final_answer_match.found THEN Raised
        ELSE Returned(strip(final_answer_match.group))

-----------------------------------------------------------------------------
(* tools/memory.py: the embedding provider                                  *)

\* Vectors are unit vectors of the plane at multiples of 45 degrees, named
\* 0..7, and the zero vector.  Similarities are in hundredths.
ZeroVector == 8

NaN == 999

\* the embedding column of a row inserted without an embedding is NULL, and
\* so is every similarity computed from it
NullVector == 9

Null == 998

\* SentenceTransformer.encode of the prefixed text: the direction the
\* embedding model gives each text explored.
encode(prefix, text) ==
    LET base == IF text = <<"a">> THEN 0 ELSE IF text = <<"b">> THEN 1 ELSE 2
    IN  IF prefix = "search_query: " THEN (base + 1) % 8 ELSE base

\* get_embedding: the model's vector, or the zero vector when encode raises
get_embedding(text, is_query, encode_ok) ==
    IF encode_ok
    THEN encode(IF is_query THEN "search_query: " ELSE "search_document: ", text)
    ELSE ZeroVector

\* 1 - (embedding <=> query): the cosine similarity, which is NaN when one
\* of the two vectors has norm 0
similarity(embedding, query_embedding) ==
    IF embedding = NullVector \/ query_embedding = NullVector THEN Null
    ELSE IF embedding = ZeroVector \/ query_embedding = ZeroVector THEN NaN
    ELSE LET d == (embedding - query_embedding + 8) % 8
         IN  IF d = 0 THEN 100
             ELSE IF d \in {1, 7} THEN 71
             ELSE IF d \in {2, 6} THEN 0
             ELSE IF d \in {3, 5} THEN -71
             ELSE -100

\* the order of float8 in PostgreSQL: NaN equals NaN and is above every
\* number; a comparison with NULL is not true
PgGreater(x, y) ==
    x # Null /\ y # Null /\ x # y /\ (x = NaN \/ (y # NaN /\ x > y))

\* the mutant: the threshold test is >= instead of >
PgGreaterOrEqual(x, y) ==
    x # Null /\ y # Null /\ (x = y \/ x = NaN \/ (y # NaN /\ x > y))

-----------------------------------------------------------------------------
(* tools/memory.py: input validation                                        *)

Absent == <<"<absent>">>

DefaultTopK == 3

DefaultThreshold == 70

Invalid(msg) == [ok |-> FALSE, error |-> msg, raised |-> "",
                 content |-> <<>>, user_id |-> <<>>,
                 importance |-> "", query |-> <<>>, top_k |-> 0,
                 similarity_threshold |-> 0]

\* the validation does not return: an exception it does not catch leaves it
Raising(exception) == [Invalid("") EXCEPT !.raised = exception]

\* input_data is "not json" or a JSON object, given by the value of each key
\* (Absent when the key is missing)
NotJson == [json |-> FALSE]

\* a JSON text that is not an object: a number (5), null, or a string that
\* holds neither key name
NonObject(kind) == [json |-> TRUE, value |-> kind]

IsObject(input_data) == input_data.json /\ "value" \notin DOMAIN input_data

\* the value of a string key that is not a string: null, or a number
JsonNull == <<"<null>">>

JsonNumber == <<"<number>">>

IsString(v) == v \notin {Absent, JsonNull, JsonNumber}

\* The value given for top_k or similarity_threshold, or the key is missing.
\* n is the value in hundredths. kind is "number" (a JSON number), "numstring"
\* (a JSON string holding that numeral), "text" (any other JSON string),
\* "null", or "infinity" (a JSON number beyond the float range, 1e400, which
\* json.loads reads as inf).
JsonValue(kind, n) == [given |-> TRUE, kind |-> kind, n |-> n]

Number(n) == JsonValue("number", n)

Whole(n) == Number(100 * n)

NoNumber == [given |-> FALSE, kind |-> "number", n |-> 0]

Infinity == 100000

Converted(n) == [error |-> "", n |-> n]

NotConverted(exception) == [error |-> exception, n |-> 0]

\* int(x): a float is truncated towards zero, a string is parsed as an
\* integer numeral, None is a TypeError, inf an OverflowError
int(v) ==
    CASE v.kind = "number" -> Converted(IF v.n >= 0 THEN v.n \div 100
                                        ELSE 0 - ((0 - v.n) \div 100))
      [] v.kind = "numstring" -> IF v.n % 100 = 0 THEN Converted(v.n \div 100)
                                 ELSE NotConverted("ValueError")
      [] v.kind = "text" -> NotConverted("ValueError")
      [] v.kind = "null" -> NotConverted("TypeError")
      [] v.kind = "infinity" -> NotConverted("OverflowError")

\* float(x), in hundredths
float(v) ==
    CASE v.kind = "number" -> Converted(v.n)
      [] v.kind = "numstring" -> Converted(v.n)
      [] v.kind = "text" -> NotConverted("ValueError")
      [] v.kind = "null" -> NotConverted("TypeError")
      [] v.kind = "infinity" -> Converted(Infinity)

StoreInputs ==
    {NotJson} \cup
    [json : {TRUE}, content : {Absent, <<"a">>, <<" ", "b", " ">>, <<" ">>},
     user_id : {<<"u1">>, <<" ", "u1">>, <<"u2">>},
     importance : {Absent}]
    \cup
    [json : {TRUE}, content : {<<"a">>}, user_id : {Absent, <<" ">>, <<"u1">>},
     importance : {<<"urgent">>, <<"low">>, <<"high">>}]
    \cup
    {NonObject("number"), NonObject("null"), NonObject("string")}
    \cup
    [json : {TRUE}, content : {JsonNull, JsonNumber}, user_id : {<<"u1">>},
     importance : {Absent}]
    \cup
    [json : {TRUE}, content : {<<"a">>}, user_id : {JsonNumber},
     importance : {Absent}]
    \cup
    [json : {TRUE}, content : {<<"a">>}, user_id : {<<"u1">>},
     importance : {JsonNull, JsonNumber}]

\* the mutant: json.loads is not guarded, a text that is not JSON is answered
\* like an object without keys
_validate_store_unguarded(input_data) ==
    IF ~input_data.json THEN Invalid("ERROR: Missing required field 'content'")
    ELSE Invalid("ERROR: Missing required field 'user_id'")

\* the mutant: content and user_id are returned as given, without .strip()
_validate_store_unstripped(input_data) ==
    IF ~input_data.json THEN Invalid("ERROR: Invalid JSON format")
    ELSE IF ~IsObject(input_data)
    THEN IF input_data.value = "string"
         THEN Invalid("ERROR: Missing required field 'content'")
         ELSE Raising("TypeError")
    ELSE IF input_data.content = Absent
    THEN Invalid("ERROR: Missing required field 'content'")
    ELSE IF input_data.user_id = Absent
    THEN Invalid("ERROR: Missing required field 'user_id'")
    ELSE LET importance == IF input_data.importance = Absent THEN <<"medium">>
                           ELSE input_data.importance
         IN  IF importance \notin {<<"low">>, <<"medium">>, <<"high">>}
             THEN Invalid("ERROR: Invalid importance level")
             ELSE IF ~IsString(input_data.content)
             THEN Raising("AttributeError")
             ELSE IF strip(input_data.content) = <<>>
             THEN Invalid("ERROR: Content cannot be empty")
             ELSE IF ~IsString(input_data.user_id)
             THEN Raising("AttributeError")
             ELSE IF strip(input_data.user_id) = <<>>
             THEN Invalid("ERROR: User ID cannot be empty")
             ELSE [Invalid("") EXCEPT !.ok = TRUE,
                                      !.content = input_data.content,
                                      !.user_id = input_data.user_id,
                                      !.importance = importance[1]]

\* The messages are named by their first sentence.
_validate_store_memory_input(input_data) ==
    IF ~input_data.json THEN Invalid("ERROR: Invalid JSON format")
    ELSE IF ~IsObject(input_data)
    THEN IF input_data.value = "string"
         THEN Invalid("ERROR: Missing required field 'content'")
         ELSE Raising("TypeError")
    ELSE IF input_data.content = Absent
    THEN Invalid("ERROR: Missing required field 'content'")
    ELSE IF input_data.user_id = Absent
    THEN Invalid("ERROR: Missing required field 'user_id'")
    ELSE LET importance == IF input_data.importance = Absent THEN <<"medium">>
                           ELSE input_data.importance
         IN  IF importance \notin {<<"low">>, <<"medium">>, <<"high">>}
             THEN Invalid("ERROR: Invalid importance level")
             ELSE IF ~IsString(input_data.content)
             THEN Raising("AttributeError")
             ELSE IF strip(input_data.content) = <<>>
             THEN Invalid("ERROR: Content cannot be empty")
             ELSE IF ~IsString(input_data.user_id)
             THEN Raising("AttributeError")
             ELSE IF strip(input_data.user_id) = <<>>
             THEN Invalid("ERROR: User ID cannot be empty")
             ELSE [Invalid("") EXCEPT !.ok = TRUE,
                                      !.content = strip(input_data.content),
                                      !.user_id = strip(input_data.user_id),
                                      !.importance = importance[1]]

\* top_k and similarity_threshold are given as JSON values or are missing
RetrieveInputs ==
    {NotJson} \cup
    [json : {TRUE}, query : {Absent, <<"a">>, <<"b", " ">>, <<" ">>},
     user_id : {<<"u1">>},
     top_k : {NoNumber}, similarity_threshold : {NoNumber}]
    \cup
    [json : {TRUE}, query : {<<"a">>},
     user_id : {Absent, <<" ">>, <<"u1">>},
     top_k : {Whole(0), Whole(1)},
     similarity_threshold : {Number(100), Number(101)}]
    \cup
    [json : {TRUE}, query : {<<"a">>},
     user_id : {<<"u1">>, <<"u2">>},
     top_k : {NoNumber} \cup {Whole(n) : n \in 1..MaxK},
     similarity_threshold : {Number(0), Number(71)}]
    \cup
    [json : {TRUE}, query : {<<"a">>}, user_id : {<<" ", "u1">>},
     top_k : {NoNumber}, similarity_threshold : {NoNumber}]
    \cup
    [json : {TRUE}, query : {<<"a">>}, user_id : {<<"u1">>},
     top_k : {Number(250), Number(0 - 100), JsonValue("numstring", 200),
              JsonValue("numstring", 250), JsonValue("text", 0),
              JsonValue("null", 0), JsonValue("infinity", 0)},
     similarity_threshold : {NoNumber}]
    \cup
    [json : {TRUE}, query : {<<"a">>}, user_id : {<<"u1">>},
     top_k : {NoNumber},
     similarity_threshold : {Number(0 - 1), JsonValue("numstring", 50),
                             JsonValue("text", 0), JsonValue("null", 0),
                             JsonValue("infinity", 0)}]
    \cup
    {NonObject("number"), NonObject("null"), NonObject("string")}

_validate_retrieve_memory_input(input_data) ==
    IF ~input_data.json THEN Invalid("ERROR: Invalid JSON format")
    ELSE IF ~IsObject(input_data)
    THEN IF input_data.value = "string"
         THEN Invalid("ERROR: Missing required field 'query'")
         ELSE Raising("TypeError")
    ELSE IF input_data.query = Absent
    THEN Invalid("ERROR: Missing required field 'query'")
    ELSE IF input_data.user_id = Absent
    THEN Invalid("ERROR: Missing required field 'user_id'")
    ELSE LET top_k == int(IF ~input_data.top_k.given THEN Whole(DefaultTopK)
                          ELSE input_data.top_k)
             similarity_threshold ==
                 float(IF ~input_data.similarity_threshold.given
                       THEN Number(DefaultThreshold)
                       ELSE input_data.similarity_threshold)
         IN  IF strip(input_data.query) = <<>>
             THEN Invalid("ERROR: Query cannot be empty")
             ELSE IF strip(input_data.user_id) = <<>>
             THEN Invalid("ERROR: User ID cannot be empty")
             ELSE IF top_k.error \in {"ValueError", "TypeError"}
             THEN Invalid("ERROR: top_k must be a valid integer")
             ELSE IF top_k.error # ""
             THEN Raising(top_k.error)
             ELSE IF top_k.n <= 0
             THEN Invalid("ERROR: top_k must be a positive integer")
             ELSE IF similarity_threshold.error \in {"ValueError", "TypeError"}
             THEN Invalid("ERROR: similarity_threshold must be a valid number")
             ELSE IF ~(0 <= similarity_threshold.n /\ similarity_threshold.n <= 100)
             THEN Invalid("ERROR: similarity_threshold must be between 0.0 and 1.0")
             ELSE [Invalid("") EXCEPT !.ok = TRUE,
                                      !.query = strip(input_data.query),
                                      !.user_id = strip(input_data.user_id),
                                      !.top_k = top_k.n,
                                      !.similarity_threshold = similarity_threshold.n]

-----------------------------------------------------------------------------
(* tools/memory.py, api/memories/service.py: the statements on the table    *)

Row(id, user_id, c, embedding, importance, created_at) ==
    [id |-> id, user_id |-> user_id, content |-> c, embedding |-> embedding,
     importance |-> importance, created_at |-> created_at]

\* INSERT INTO semantic_memories (user_id, content, embedding, importance)
insert_memory(rows, id, user_id, c, embedding, importance, now) ==
    rows \cup {Row(id, user_id, c, embedding, importance, now)}

\* the mutant: WHERE user_id = %s is missing from the SELECT
select_similar_any_owner(rows, user_id, query_embedding, threshold) ==
    {r \in rows : PgGreater(similarity(r.embedding, query_embedding), threshold)}

\* the mutant: the rows at the threshold are selected too
select_similar_inclusive(rows, user_id, query_embedding, threshold) ==
    {r \in rows : /\ r.user_id = user_id
                  /\ PgGreaterOrEqual(similarity(r.embedding, query_embedding),
                                      threshold)}

\* WHERE user_id = %s AND 1 - (embedding <=> %s::vector) > %s
select_similar(rows, user_id, query_embedding, threshold) ==
    {r \in rows : /\ r.user_id = user_id
                  /\ PgGreater(similarity(r.embedding, query_embedding), threshold)}

\* ORDER BY key DESC LIMIT k: the next row is one of the largest left;
\* rows of equal key come in any order.  The result is one of these.
RECURSIVE order_desc_limit(_, _, _)
order_desc_limit(rows, key, k) ==
    IF k = 0 \/ rows = {} THEN {<<>>}
    ELSE LET top == {r \in rows : \A o \in rows : ~PgGreater(o[key], r[key])}
         IN  UNION {{<<r>> \o rest : rest \in order_desc_limit(rows \ {r}, key, k - 1)}
                    : r \in top}

\* the mutant: WHERE id = %s only, the owner is not compared
update_memory_any_owner(rows, memory_id, user_id, new_content, new_embedding, now) ==
    {IF r.id = memory_id
     THEN [r EXCEPT !.content = new_content, !.embedding = new_embedding,
                    !.created_at = now]
     ELSE r : r \in rows}

\* the mutant: the UPDATE sets the content only, the embedding is written
\* by a statement that has not run yet
update_memory_content_first(rows, memory_id, user_id, new_content, new_embedding, now) ==
    {IF r.id = memory_id /\ r.user_id = user_id
     THEN [r EXCEPT !.content = new_content, !.created_at = now]
     ELSE r : r \in rows}

\* the mutant: the UPDATE sets importance back to medium too
update_memory_resets_importance(rows, memory_id, user_id, new_content, new_embedding, now) ==
    {IF r.id = memory_id /\ r.user_id = user_id
     THEN [r EXCEPT !.content = new_content, !.embedding = new_embedding,
                    !.created_at = now, !.importance = "medium"]
     ELSE r : r \in rows}

\* UPDATE semantic_memories SET content, embedding, created_at = NOW()
\* WHERE id = %s AND user_id = %s
update_memory(rows, memory_id, user_id, new_content, new_embedding, now) ==
    {IF r.id = memory_id /\ r.user_id = user_id
     THEN [r EXCEPT !.content = new_content, !.embedding = new_embedding,
                    !.created_at = now]
     ELSE r : r \in rows}

\* the mutant: RETURNING id tells of a row with that id whoever owns it
update_matched_by_id(rows, memory_id, user_id) ==
    {r \in rows : r.id = memory_id}

\* RETURNING id of the UPDATE: the rows it matched
update_matched(rows, memory_id, user_id) ==
    {r \in rows : r.id = memory_id /\ r.user_id = user_id}

-----------------------------------------------------------------------------
(* The memory tools and the memories service                                *)

Result(kind, text, id, rows) == [kind |-> kind, text |-> text, id |-> id, rows |-> rows]

\* calls: what the call asked of the embedding provider and of the database
\* connection, in order
MemOp(op, user_id, input, parsed, embedding, result, calls) ==
    [op |-> op, user_id |-> user_id, input |-> input, parsed |-> parsed,
     embedding |-> embedding, result |-> result, calls |-> calls,
     before |-> store]

\* A call that leaves the table as it was is explored from every state of
\* the table; what follows it is what follows the state it was made in, so
\* calls are explored from the states a write (or the start) leaves.
AfterWrite == mem_last.op = "none" \/ mem_last.before # store

NoMemOp == [op |-> "none", user_id |-> <<>>, input |-> NotJson,
            parsed |-> Invalid(""), embedding |-> ZeroVector,
            result |-> Result("none", "", 0, <<>>), calls |-> <<>>,
            before |-> {}]

\* the threads that call the memory tools at the same time: two call
\* update_memory, one calls retrieve_memory
Updaters == {"t1", "t2"}

Reader == "t3"

Callers == Updaters \cup {Reader}

\* a caller outside any call
IdleCall == [pc |-> "idle", content |-> <<>>, embedding |-> ZeroVector,
             result |-> "", after |-> {}, rows |-> <<>>]

NoStatements == [order |-> <<>>, committed |-> {}]

NoThreads == <<>>

ConcIdle ==
    /\ running = [t \in Callers |-> IdleCall]
    /\ conn = NoStatements
    /\ threads = NoThreads

MemIdle ==
    /\ store = {}
    /\ next_id = 1
    /\ clock = 1
    /\ mem_last = NoMemOp

\* The table outlives the process: when the tools are created it is empty
\* or holds what earlier runs stored, here one row of u2.
StoredBefore ==
    { {},
      {Row(1, <<"u2">>, <<"b">>, encode("search_document: ", <<"b">>), "low", 0)} }

InitMem ==
    /\ content = <<>> /\ action_info = Unset
    /\ clean_answer = NotRun /\ clean_again = NotRun
    /\ use_streaming = FALSE
    /\ pc = "END"
    /\ messages = <<>>
    /\ next_action = "unset"
    /\ actions = <<>>
    /\ llm_calls = 0
    /\ last = [node |-> "none", response |-> <<>>, stream |-> "none",
               before |-> 0, calls_before |-> 0, acts |-> <<>>, outcomes |-> <<>>]
    /\ store \in StoredBefore
    /\ next_id = Cardinality(store) + 1
    /\ clock = 1
    /\ mem_last = NoMemOp
    /\ ConcIdle

Writes == clock - 1

\* StoreMemoryTool._run: an input the validation rejects
StoreMemoryRejected ==
    /\ AfterWrite
    /\ \E input_data \in StoreInputs :
          LET parsed_data == _validate_store_memory_input(input_data)
          IN  /\ ~parsed_data.ok
              /\ mem_last' = MemOp("store_memory",
                                   IF IsObject(input_data) THEN input_data.user_id
                                   ELSE Absent,
                                   input_data, parsed_data, ZeroVector,
                                   IF parsed_data.raised # ""
                                   THEN Result("raised", parsed_data.raised, 0, <<>>)
                                   ELSE Result("error", parsed_data.error, 0, <<>>),
                                   <<>>)
    /\ UNCHANGED <<store, next_id, clock, textVars, loopVars, concVars>>

\* StoreMemoryTool._run: embed the content, insert the row, return its id
StoreMemory ==
    /\ AfterWrite /\ Writes < MaxWrites
    /\ \E input_data \in StoreInputs, encode_ok \in BOOLEAN :
          LET parsed_data == _validate_store_memory_input(input_data)
              embedding == get_embedding(parsed_data.content, FALSE, encode_ok)
          IN  /\ parsed_data.ok
              /\ store' = insert_memory(store, next_id, parsed_data.user_id,
                                        parsed_data.content, embedding,
                                        parsed_data.importance, clock)
              /\ mem_last' = MemOp("store_memory", parsed_data.user_id, input_data,
                                   parsed_data, embedding,
                                   Result("stored", "Memory stored successfully with ID",
                                          next_id, <<>>),
                                   <<"get_embedding", "execute", "commit">>)
    /\ next_id' = next_id + 1
    /\ clock' = clock + 1
    /\ UNCHANGED <<textVars, loopVars, concVars>>

SimilarityRow(r, query_embedding) ==
    [id |-> r.id, content |-> r.content, importance |-> r.importance,
     created_at |-> r.created_at,
     similarity |-> similarity(r.embedding, query_embedding)]

RowSimilarity == "similarity"

\* RetrieveMemoryTool._run
RetrieveMemory ==
    /\ AfterWrite
    /\ \E input_data \in RetrieveInputs, encode_ok \in BOOLEAN :
          LET parsed_data == _validate_retrieve_memory_input(input_data)
              query_embedding == get_embedding(parsed_data.query, TRUE, encode_ok)
              selected == {SimilarityRow(r, query_embedding) :
                             r \in select_similar(store, parsed_data.user_id,
                                                  query_embedding,
                                                  parsed_data.similarity_threshold)}
          IN  IF ~parsed_data.ok
              THEN mem_last' = MemOp("retrieve_memory",
                                     IF IsObject(input_data) THEN input_data.user_id
                                     ELSE Absent,
                                     input_data, parsed_data, ZeroVector,
                                     IF parsed_data.raised # ""
                                     THEN Result("raised", parsed_data.raised, 0, <<>>)
                                     ELSE Result("error", parsed_data.error, 0, <<>>),
                                     <<>>)
              ELSE \E results \in order_desc_limit(selected, RowSimilarity,
                                                   parsed_data.top_k) :
                      mem_last' = MemOp("retrieve_memory", parsed_data.user_id,
                                        input_data, parsed_data, query_embedding,
                                        IF results = <<>>
                                        THEN Result("none", "No relevant memories found for query",
                                                    0, <<>>)
                                        ELSE Result("rows", "Retrieved memories:", 0, results),
                                        <<"get_embedding", "execute">>)
    /\ UNCHANGED <<store, next_id, clock, textVars, loopVars, concVars>>

UpdateContents == {<<"b">>, <<" ">>}

UserIds == {<<"u1">>, <<" ", "u1">>, <<"u2">>}

\* UpdateMemoryTool._run(memory_id, new_content, user_id): the arguments are
\* used as given, _validate_update_memory_input is not called
UpdateMemory ==
    /\ AfterWrite /\ Writes < MaxWrites
    /\ \E memory_id \in 1..next_id, new_content \in UpdateContents,
          user_id \in UserIds, encode_ok \in BOOLEAN :
          LET new_embedding == get_embedding(new_content, FALSE, encode_ok)
              result == update_matched(store, memory_id, user_id)
              input == [json |-> TRUE, memory_id |-> memory_id,
                        new_content |-> new_content, user_id |-> user_id]
          IN  /\ store' = update_memory(store, memory_id, user_id, new_content,
                                        new_embedding, clock)
              /\ mem_last' = MemOp("update_memory", user_id, input, Invalid(""), new_embedding,
                                   IF result # {}
                                   THEN Result("updated", "Memory {memory_id} updated successfully",
                                               memory_id, <<>>)
                                   ELSE Result("not_found",
                                               "Memory {memory_id} not found or access denied",
                                               memory_id, <<>>),
                                   <<"get_embedding", "execute", "commit">>)
    /\ clock' = clock + 1
    /\ UNCHANGED <<next_id, textVars, loopVars, concVars>>

ListRow(r) == [id |-> r.id, user_id |-> r.user_id, content |-> r.content,
               created_at |-> r.created_at]

RowCreatedAt == "created_at"

\* MemoryService.list_memories
ListMemories ==
    /\ AfterWrite
    /\ \E user_id \in UserIds :
          LET selected == {ListRow(r) : r \in {o \in store : o.user_id = user_id}}
          IN  \E results \in order_desc_limit(selected, RowCreatedAt, Cardinality(selected)) :
                  mem_last' = MemOp("list_memories", user_id,
                                    [json |-> TRUE, user_id |-> user_id], Invalid(""),
                                    ZeroVector,
                                    Result("rows", "", 0, results),
                                    <<"execute">>)
    /\ UNCHANGED <<store, next_id, clock, textVars, loopVars, concVars>>

AddUserIds == {<<"u1">>}

AddContents == {<<"a">>, <<>>}

\* MemoryService.add_memory(user_id, content): the INSERT names user_id and
\* content only, the other columns take the table's defaults (no embedding);
\* nothing is validated.  Whether the session accepts the statement given as
\* a plain string depends on the SQLAlchemy version: it runs, or it raises.
AddMemory ==
    /\ AfterWrite /\ Writes < MaxWrites
    /\ \E user_id \in AddUserIds, c \in AddContents, executed \in BOOLEAN :
          LET input == [json |-> TRUE, user_id |-> user_id, content |-> c]
              row == Row(next_id, user_id, c, NullVector, "DEFAULT", clock)
          IN  IF executed
              THEN /\ store' = store \cup {row}
                   /\ next_id' = next_id + 1
                   /\ clock' = clock + 1
                   /\ mem_last' = MemOp("add_memory", user_id, input, Invalid(""),
                                        NullVector,
                                        Result("row", "", next_id, <<ListRow(row)>>),
                                        <<"execute">>)
              ELSE /\ UNCHANGED <<store, next_id, clock>>
                   /\ mem_last' = MemOp("add_memory", user_id, input, Invalid(""),
                                        NullVector, Result("raised", "", 0, <<>>),
                                        <<"execute">>)
    /\ UNCHANGED <<textVars, loopVars, concVars>>

NextMem == StoreMemoryRejected \/ StoreMemory \/ RetrieveMemory \/ UpdateMemory
              \/ ListMemories \/ AddMemory

SpecMem == InitMem /\ [][NextMem]_vars

-----------------------------------------------------------------------------
(* tools/memory.py: calls of the tools from several threads at once         *)

\* The tools share one connection (SemanticMemoryTools.__init__).  The
\* connection runs one statement at a time, each statement as a whole, and
\* a statement sees what the statements before it on the connection wrote.
\* Each call is the steps of its _run: get_embedding, execute, commit.

SharedId == 1

SharedOwner == <<"u2">>

ConcurrentContents == {<<"a">>, <<"x">>}

ReaderQuery == <<"a">>

\* update_memory(SharedId, new_content, SharedOwner) is called on thread t
UpdateCall(t) ==
    /\ running[t].pc = "idle"
    /\ \E new_content \in ConcurrentContents :
          running' = [running EXCEPT ![t] = [IdleCall EXCEPT !.pc = "get_embedding",
                                                             !.content = new_content]]
    /\ UNCHANGED <<conn, threads, textVars, loopVars, memVars>>

\* new_embedding = memory_tools.get_embedding(new_content, is_query=False)
UpdateEmbed(t) ==
    /\ running[t].pc = "get_embedding"
    /\ \E encode_ok \in BOOLEAN :
          running' = [running EXCEPT
                        ![t].embedding = get_embedding(running[t].content, FALSE, encode_ok),
                        ![t].pc = "execute"]
    /\ UNCHANGED <<conn, threads, textVars, loopVars, memVars>>

\* cursor.execute(UPDATE ... RETURNING id); result = cursor.fetchone()
UpdateExecute(t) ==
    /\ running[t].pc = "execute"
    /\ store' = update_memory(store, SharedId, SharedOwner, running[t].content,
                              running[t].embedding, clock)
    /\ clock' = clock + 1
    /\ running' = [running EXCEPT
                     ![t].result = IF update_matched(store, SharedId, SharedOwner) # {}
                                   THEN "updated" ELSE "not_found",
                     ![t].pc = "commit"]
    /\ conn' = [conn EXCEPT !.order = Append(@, t)]
    /\ UNCHANGED <<next_id, mem_last, threads, textVars, loopVars>>

\* memory_tools.db_connection.commit(); the result text is returned
UpdateCommit(t) ==
    /\ running[t].pc = "commit"
    /\ conn' = [conn EXCEPT !.committed = store]
    /\ running' = [running EXCEPT ![t].pc = "done"]
    /\ UNCHANGED <<threads, textVars, loopVars, memVars>>

\* retrieve_memory is called on the reader thread; after is the set of
\* update calls that had returned success by then
RetrieveCall ==
    /\ running[Reader].pc = "idle"
    /\ running' = [running EXCEPT
                     ![Reader] = [IdleCall EXCEPT
                                    !.pc = "get_embedding",
                                    !.content = ReaderQuery,
                                    !.after = {u \in Updaters :
                                                 /\ running[u].pc = "done"
                                                 /\ running[u].result = "updated"}]]
    /\ UNCHANGED <<conn, threads, textVars, loopVars, memVars>>

\* query_embedding = memory_tools.get_embedding(parsed_data["query"], is_query=True)
RetrieveEmbed ==
    /\ running[Reader].pc = "get_embedding"
    /\ \E encode_ok \in BOOLEAN :
          running' = [running EXCEPT
                        ![Reader].embedding = get_embedding(running[Reader].content,
                                                            TRUE, encode_ok),
                        ![Reader].pc = "execute"]
    /\ UNCHANGED <<conn, threads, textVars, loopVars, memVars>>

\* cursor.execute(SELECT ...); results = cursor.fetchall(), with the
\* threshold 0.0 and the default top_k
RetrieveExecute ==
    /\ running[Reader].pc = "execute"
    /\ LET selected == {SimilarityRow(r, running[Reader].embedding) :
                          r \in select_similar(store, SharedOwner,
                                               running[Reader].embedding, 0)}
       IN  \E results \in order_desc_limit(selected, RowSimilarity, DefaultTopK) :
              running' = [running EXCEPT ![Reader].rows = results,
                                         ![Reader].pc = "done"]
    /\ UNCHANGED <<conn, threads, textVars, loopVars, memVars>>

InitUpdates ==
    /\ content = <<>> /\ action_info = Unset
    /\ clean_answer = NotRun /\ clean_again = NotRun
    /\ use_streaming = FALSE
    /\ pc = "END"
    /\ messages = <<>>
    /\ next_action = "unset"
    /\ actions = <<>>
    /\ llm_calls = 0
    /\ last = [node |-> "none", response |-> <<>>, stream |-> "none",
               before |-> 0, calls_before |-> 0, acts |-> <<>>, outcomes |-> <<>>]
    /\ store \in StoredBefore
    /\ next_id = Cardinality(store) + 1
    /\ clock = 1
    /\ mem_last = NoMemOp
    /\ running = [t \in Callers |-> IdleCall]
    /\ conn = [order |-> <<>>, committed |-> store]
    /\ threads = NoThreads

NextUpdates ==
    \/ \E t \in Updaters : UpdateCall(t)
    \/ \E t \in Updaters : UpdateEmbed(t)
    \/ \E t \in Updaters : UpdateExecute(t)
    \/ \E t \in Updaters : UpdateCommit(t)
    \/ RetrieveCall
    \/ RetrieveEmbed
    \/ RetrieveExecute

SpecUpdates == InitUpdates /\ [][NextUpdates]_vars

-----------------------------------------------------------------------------
(* Messages and the conversation state                                      *)

HumanMessage(c) == [type |-> "human", content |-> c, tool_call_id |-> <<>>]

AIMessage(c) == [type |-> "ai", content |-> c, tool_call_id |-> <<>>]

ToolMessage(c, id) == [type |-> "tool", content |-> c, tool_call_id |-> id]

\* What a node returns: the keys of the state it sets, or the exception it
\* lets escape.
Delta(msgs, na, sets_actions, acts) ==
    [raised |-> FALSE, messages |-> msgs, next_action |-> na,
     sets_actions |-> sets_actions, actions |-> acts]

Raises == [raised |-> TRUE, messages |-> <<>>, next_action |-> "",
           sets_actions |-> FALSE, actions |-> <<>>]

\* The outputs of the model backend explored: prose, a final answer after a
\* thought, a call of a registered tool, a call of an unregistered tool, an
\* Action: line with nothing but a blank after it, an Action Input: line
\* with nothing but a blank after it, a tool call followed by a final answer.
Responses ==
    { <<"x", " ", "x">>,
      <<"Thought:", " ", "x", "\n", "Final Answer:", " ", "x", "\n">>,
      <<"Action:", " ", "web_search", "\n", "Action Input:", " ", "x">>,
      <<"Action:", " ", "no_such_tool", " ", "\n", "Action Input:", " ", "x">>,
      <<"Action Input:", " ", "x", "\n", "Action:", " ">>,
      <<"Action:", " ", "web_search", "\n", "Action Input:", " ">>,
      <<"Action:", " ", "web_search", "\n", "Action Input:", " ", "x", "\n",
        "Final Answer:", " ", "x">> }

\* The names get_all_tools() registers that the explored outputs can name.
RegisteredTools == { <<"web_search">> }

IsProse(r) == ~Has(r, "Action:") /\ ~Has(r, "Action Input:") /\ ~Has(r, "Final Answer:")

\* s holds t as a contiguous piece
Contains(s, t) ==
    \E i \in 1..(Len(s) - Len(t) + 1) : SubSeq(s, i, i + Len(t) - 1) = t

StartsWith(s, t) == Len(s) >= Len(t) /\ SubSeq(s, 1, Len(t)) = t

-----------------------------------------------------------------------------
(* agent/nodes.py: agent_node, agent_node_with_streaming                    *)

\* the mutant: the turn that asks for a tool is not appended
agent_node_turn_dropped(response) ==
    LET info == parse_action_from_response(response)
        clean == extract_final_answer(response)
    IN  IF info.st = "dict"
        THEN Delta(<<>>, "call_tool", TRUE, <<info>>)
        ELSE IF clean.st = "raised" THEN Raises
        ELSE Delta(<<AIMessage(clean.value)>>, "respond", FALSE, <<>>)

agent_node(response) ==
    LET info == parse_action_from_response(response)
        clean == extract_final_answer(response)
    IN  IF info.st = "dict"
        THEN Delta(<<AIMessage(response)>>, "call_tool", TRUE, <<info>>)
        ELSE IF clean.st = "raised" THEN Raises
        ELSE Delta(<<AIMessage(clean.value)>>, "respond", FALSE, <<>>)

\* the mutant: no try/except around the streaming block, what it raises escapes
agent_node_streaming_uncaught(temp_response, stream_ok) ==
    LET info == parse_action_from_response(temp_response)
        clean == extract_final_answer(<<>>)
    IN  IF info.st = "dict"
        THEN Delta(<<AIMessage(temp_response)>>, "call_tool", TRUE, <<info>>)
        ELSE IF stream_ok /\ clean.st = "returned"
        THEN Delta(<<AIMessage(clean.value)>>, "respond", FALSE, <<>>)
        ELSE Raises

\* stream_response2 is called for its effect and its result is dropped, so
\* streamed_content is still "" at line 152; whatever the try block raises
\* (the stream, or extract_final_answer on "") is caught at line 155 and the
\* turn is temp_response, the raw output of the decision call.
agent_node_with_streaming(temp_response, stream_ok) ==
    LET info == parse_action_from_response(temp_response)
        streamed_content == <<>>
        clean == extract_final_answer(streamed_content)
        ai_message == IF stream_ok /\ clean.st = "returned"
                      THEN AIMessage(clean.value)
                      ELSE AIMessage(temp_response)
    IN  IF info.st = "dict"
        THEN Delta(<<AIMessage(temp_response)>>, "call_tool", TRUE, <<info>>)
        ELSE Delta(<<ai_message>>, "respond", FALSE, <<>>)

\* How the try block of agent_node_with_streaming can go: the stream
\* completes, it fails partway, or the block fails before the stream starts
\* (assembling or formatting the prompt).
Streams == {"completed", "failed", "not_started"}

\* utils/streaming.py: stream_response2(llm, prompt) streams from the model;
\* the number of model calls it makes
stream_response2(stream) == IF stream = "not_started" THEN 0 ELSE 1

\* the mutant: the streaming node streams on every pass, also when the
\* decision call asked for a tool
backend_calls_always_streamed(streaming, response, stream) ==
    IF streaming THEN 1 + stream_response2(stream) ELSE 1

\* The model calls of one pass through the agent node: agent_runnable.invoke
\* (line 50 / line 91) and, in the streaming node's branch for an output
\* without an action, stream_response2 (line 129).
backend_calls(streaming, response, stream) ==
    IF streaming /\ parse_action_from_response(response).st = "none"
    THEN 1 + stream_response2(stream)
    ELSE 1

-----------------------------------------------------------------------------
(* tools/tool_registry.py: execute_tool (its outcomes)                      *)

NotCalled == [raised |-> FALSE, text |-> <<"not called">>]

\* What execute_tool(tool_name, tool_args) can do: a registered tool returns
\* its result text or raises; an unregistered name is answered with an error
\* text that holds the name, or with an exception.
execute_tool(tool_name, tool_args) ==
    IF tool_name \in RegisteredTools
    THEN { [raised |-> FALSE, text |-> <<"result of ">> \o tool_name],
           [raised |-> TRUE, text |-> <<"handler failed">>] }
    ELSE { [raised |-> FALSE, text |-> <<"Error: unknown tool ">> \o tool_name],
           [raised |-> TRUE, text |-> <<"unknown tool">>] }

-----------------------------------------------------------------------------
(* agent/nodes.py: tool_node, decide_next_step                              *)

Malformed(a) == a.action = <<>> \/ a.action_input = <<>>

\* the mutant: no try/except around execute_tool, its exception escapes
tool_output_uncaught(a, outcome) ==
    IF Malformed(a)
    THEN [raised |-> FALSE,
          msg |-> ToolMessage(<<"Error: Malformed tool call received.">>,
                              IF a.action # <<>> THEN a.action ELSE <<"unknown">>)]
    ELSE [raised |-> outcome.raised, msg |-> ToolMessage(outcome.text, a.action)]

\* the mutant: every tool message carries the action's name as its id, the
\* malformed ones too
tool_output_plain_id(a, outcome) ==
    IF Malformed(a)
    THEN [raised |-> FALSE,
          msg |-> ToolMessage(<<"Error: Malformed tool call received.">>, a.action)]
    ELSE IF ~outcome.raised
    THEN [raised |-> FALSE, msg |-> ToolMessage(outcome.text, a.action)]
    ELSE [raised |-> FALSE,
          msg |-> ToolMessage(<<"Error: Failed to execute tool ">> \o a.action
                                  \o <<": ">> \o outcome.text, a.action)]

\* One pass of the for loop of tool_node (lines 185-222) for action a, with
\* the outcome of its execute_tool call.  The parser only makes dicts, so
\* the getattr branch of lines 191-193 is not taken.
tool_output(a, outcome) ==
    IF Malformed(a)
    THEN [raised |-> FALSE,
          msg |-> ToolMessage(<<"Error: Malformed tool call received.">>,
                              IF a.action # <<>> THEN a.action ELSE <<"unknown">>)]
    ELSE IF ~outcome.raised
    THEN [raised |-> FALSE, msg |-> ToolMessage(outcome.text, a.action)]
    ELSE [raised |-> FALSE,
          msg |-> ToolMessage(<<"Error: Failed to execute tool ">> \o a.action
                                  \o <<": ">> \o outcome.text, a.action)]

\* The outcomes execute_tool can have for each action of the list, in order;
\* it is not called for a malformed action.
OutcomesFor(acts) ==
    LET all == UNION {execute_tool(acts[i].action, acts[i].action_input) : i \in 1..Len(acts)}
                 \cup {NotCalled}
    IN  {o \in [1..Len(acts) -> all] :
            \A i \in 1..Len(acts) :
                IF Malformed(acts[i]) THEN o[i] = NotCalled
                ELSE o[i] \in execute_tool(acts[i].action, acts[i].action_input)}

tool_node(acts, outcomes) ==
    LET outs == [i \in 1..Len(acts) |-> tool_output(acts[i], outcomes[i])]
    IN  IF \E i \in 1..Len(acts) : outs[i].raised THEN Raises
        ELSE Delta([i \in 1..Len(acts) |-> outs[i].msg], "respond", FALSE, <<>>)

\* the mutant: the loop is cut, no output is sent to tool_node
decide_next_step_always_end(na) == "respond_and_end"

decide_next_step(na) ==
    IF na = "call_tool" THEN "tool_node"
    ELSE IF na = "respond" THEN "respond_and_end"
    ELSE "respond_and_end"

-----------------------------------------------------------------------------
(* agent/workflow.py: the graph                                             *)

\* the mutant: decide_next_step is asked after tool_node too
EdgeFrom_always_conditional(node, na) ==
    IF decide_next_step(na) = "tool_node" THEN "tool_node" ELSE "END"

\* the conditional edge out of "agent" and the edge out of "tool_node"
EdgeFrom(node, na) ==
    IF node = "agent"
    THEN (IF decide_next_step(na) = "tool_node" THEN "tool_node" ELSE "END")
    ELSE "agent"

\* AgentState after a node returned d: messages are appended to, the other
\* keys the node returned are overwritten, the rest is kept.
StateAfter(d) ==
    /\ messages' = messages \o d.messages
    /\ next_action' = d.next_action
    /\ actions' = IF d.sets_actions THEN d.actions ELSE actions

\* One step of the compiled graph: the node runs, its result is merged into
\* the state and the edge out of the node is followed; an exception of the
\* node ends the run.
Run(node, d, seen) ==
    /\ last' = seen
    /\ IF d.raised
       THEN /\ pc' = "raised"
            /\ UNCHANGED <<messages, next_action, actions>>
       ELSE /\ StateAfter(d)
            /\ pc' = EdgeFrom(node, d.next_action)

\* What the node that runs met: the model output and how the stream went
\* (agent), the pending actions and what execute_tool did with each
\* (tool_node), the number of messages and of model calls before it ran.
Seen(node, response, stream, acts, outcomes) ==
    [node |-> node, response |-> response, stream |-> stream,
     before |-> Len(messages), calls_before |-> llm_calls,
     acts |-> acts, outcomes |-> outcomes]

NoneYet == [node |-> "none", response |-> <<>>, stream |-> "none", before |-> 0,
            calls_before |-> 0, acts |-> <<>>, outcomes |-> <<>>]

Init ==
    /\ content = <<>> /\ action_info = Unset
    /\ clean_answer = NotRun /\ clean_again = NotRun
    /\ use_streaming \in BOOLEAN
    /\ pc = "agent"
    /\ messages = <<HumanMessage(<<"x">>)>>
    /\ next_action = "unset"
    /\ actions = <<>>
    /\ llm_calls = 0
    /\ last = NoneYet
    /\ MemIdle
    /\ ConcIdle

AgentNode ==
    /\ pc = "agent" /\ ~use_streaming /\ llm_calls < MaxCalls
    /\ \E response \in Responses :
          /\ Run("agent", agent_node(response),
                 Seen("agent", response, "none", actions, <<>>))
          /\ llm_calls' = llm_calls + backend_calls(FALSE, response, "none")
    /\ UNCHANGED <<use_streaming, textVars, memVars, concVars>>

AgentNodeWithStreaming ==
    /\ pc = "agent" /\ use_streaming /\ llm_calls < MaxCalls
    /\ \E response \in Responses, stream \in Streams :
          /\ Run("agent", agent_node_with_streaming(response, stream = "completed"),
                 Seen("agent", response, stream, actions, <<>>))
          /\ llm_calls' = llm_calls + backend_calls(TRUE, response, stream)
    /\ UNCHANGED <<use_streaming, textVars, memVars, concVars>>

ToolNode ==
    /\ pc = "tool_node"
    /\ \E outcomes \in OutcomesFor(actions) :
          Run("tool_node", tool_node(actions, outcomes),
              Seen("tool_node", <<>>, "none", actions, outcomes))
    /\ UNCHANGED <<use_streaming, llm_calls, textVars, memVars, concVars>>

Next == AgentNode \/ AgentNodeWithStreaming \/ ToolNode

Spec == Init /\ [][Next]_vars

\* The loop under the assumption that the model gives an output without an
\* action by its MaxCalls-th call at the latest, and with the graph runner
\* running the node the edge leads to (the turn is one sequential pipeline).
NonActionResponses ==
    {r \in Responses : parse_action_from_response(r).st = "none"}

Offered(calls) ==
    IF calls + 1 >= MaxCalls THEN NonActionResponses ELSE Responses

AgentNodeAnswering ==
    /\ pc = "agent" /\ ~use_streaming /\ llm_calls < MaxCalls
    /\ \E response \in Offered(llm_calls) :
          /\ Run("agent", agent_node(response),
                 Seen("agent", response, "none", actions, <<>>))
          /\ llm_calls' = llm_calls + backend_calls(FALSE, response, "none")
    /\ UNCHANGED <<use_streaming, textVars, memVars, concVars>>

AgentNodeWithStreamingAnswering ==
    /\ pc = "agent" /\ use_streaming /\ llm_calls < MaxCalls
    /\ \E response \in Offered(llm_calls), stream \in Streams :
          /\ Run("agent", agent_node_with_streaming(response, stream = "completed"),
                 Seen("agent", response, stream, actions, <<>>))
          /\ llm_calls' = llm_calls + backend_calls(TRUE, response, stream)
    /\ UNCHANGED <<use_streaming, textVars, memVars, concVars>>

NextLive == AgentNodeAnswering \/ AgentNodeWithStreamingAnswering \/ ToolNode

SpecLive == Init /\ [][NextLive]_vars /\ WF_vars(NextLive)

\* tool_node handed every pending-action list the parser's actions can make
ActionItems ==
    {parse_action_from_response(r) : r \in Responses} \ {None}

InitTool ==
    /\ content = <<>> /\ action_info = Unset
    /\ clean_answer = NotRun /\ clean_again = NotRun
    /\ use_streaming \in BOOLEAN
    /\ pc = "tool_node"
    /\ messages = <<HumanMessage(<<"x">>), AIMessage(<<"x">>)>>
    /\ next_action = "call_tool"
    /\ actions \in UNION {[1..n -> ActionItems] : n \in 0..MaxActions}
    /\ llm_calls = 1
    /\ last = NoneYet
    /\ MemIdle
    /\ ConcIdle

SpecTool == InitTool /\ [][Next]_vars

-----------------------------------------------------------------------------
(* agent/workflow.py: the compiled graph run for two conversation threads   *)

\* The checkpointer keeps one AgentState per thread id.  A node run of a
\* thread is two steps, so that node runs of the two threads overlap: the
\* runner loads the state of the thread and passes it to the node; the node
\* returns and what it returned is merged and saved under the thread id.

ThreadIds == {"A", "B"}

ThreadResponses ==
    { <<"Thought:", " ", "x", "\n", "Final Answer:", " ", "x", "\n">>,
      <<"Action:", " ", "web_search", "\n", "Action Input:", " ", "x">>,
      <<"Action:", " ", "no_such_tool", " ", "\n", "Action Input:", " ", "x">> }

AgentState(msgs, na, acts) == [messages |-> msgs, next_action |-> na, actions |-> acts]

NotPassed == AgentState(<<>>, "", <<>>)

\* the checkpoint store: load(thread_id)
load(checkpoints, thread_id) == checkpoints[thread_id].state

\* the mutant: the state is saved for every thread, the thread id is not
\* the key
save_unkeyed(checkpoints, thread_id, state) ==
    [u \in DOMAIN checkpoints |-> [checkpoints[u] EXCEPT !.state = state]]

\* the checkpoint store: save(thread_id, state)
save(checkpoints, thread_id, state) ==
    [checkpoints EXCEPT ![thread_id].state = state]

\* AgentState after a node that was passed state returned d
Merged(state, d) ==
    AgentState(state.messages \o d.messages, d.next_action,
               IF d.sets_actions THEN d.actions ELSE state.actions)

\* the node of thread t returned d: the run ends on an exception, else the
\* merged state is saved and the edge out of the node is followed
Returned_to(t, node, d) ==
    IF d.raised
    THEN [threads EXCEPT ![t].pc = "raised", ![t].in_node = FALSE,
                         ![t].passed = NotPassed]
    ELSE [save(threads, t, Merged(threads[t].passed, d)) EXCEPT
             ![t].pc = EdgeFrom(node, d.next_action),
             ![t].in_node = FALSE,
             ![t].passed = NotPassed,
             ![t].llm_calls = IF node = "agent" THEN @ + 1 ELSE @]

\* the runner starts the next node of thread t on the state of thread t
ThreadBegin(t) ==
    /\ threads[t].pc \in {"agent", "tool_node"} /\ ~threads[t].in_node
    /\ threads[t].pc = "agent" => threads[t].llm_calls < MaxThreadCalls
    /\ threads' = [threads EXCEPT ![t].passed = load(threads, t),
                                  ![t].in_node = TRUE]
    /\ UNCHANGED <<running, conn, textVars, loopVars, memVars>>

\* agent_node(state) of thread t returns
ThreadAgentNode(t) ==
    /\ threads[t].in_node /\ threads[t].pc = "agent"
    /\ \E response \in ThreadResponses :
          threads' = Returned_to(t, "agent", agent_node(response))
    /\ UNCHANGED <<running, conn, textVars, loopVars, memVars>>

\* tool_node(state) of thread t returns
ThreadToolNode(t) ==
    /\ threads[t].in_node /\ threads[t].pc = "tool_node"
    /\ \E outcomes \in OutcomesFor(threads[t].passed.actions) :
          threads' = Returned_to(t, "tool_node",
                                 tool_node(threads[t].passed.actions, outcomes))
    /\ UNCHANGED <<running, conn, textVars, loopVars, memVars>>

InitThreads ==
    /\ content = <<>> /\ action_info = Unset
    /\ clean_answer = NotRun /\ clean_again = NotRun
    /\ use_streaming = FALSE
    /\ pc = "END"
    /\ messages = <<>>
    /\ next_action = "unset"
    /\ actions = <<>>
    /\ llm_calls = 0
    /\ last = NoneYet
    /\ MemIdle
    /\ running = [t \in Callers |-> IdleCall]
    /\ conn = NoStatements
    /\ threads = [t \in ThreadIds |->
                    [state |-> AgentState(<<HumanMessage(IF t = "A" THEN <<"a">>
                                                        ELSE <<"b">>)>>,
                                          "unset", <<>>),
                     pc |-> "agent", in_node |-> FALSE, passed |-> NotPassed,
                     llm_calls |-> 0]]

NextThreads ==
    \/ \E t \in ThreadIds : ThreadBegin(t)
    \/ \E t \in ThreadIds : ThreadAgentNode(t)
    \/ \E t \in ThreadIds : ThreadToolNode(t)

SpecThreads == InitThreads /\ [][NextThreads]_vars

-----------------------------------------------------------------------------
(* The parser and the cleaner applied to every bounded text                 *)

InitText ==
    /\ content \in Texts(ParserAlphabet, MaxLen) \cup Texts(CleanerAlphabet, MaxLen)
    /\ action_info = Unset
    /\ clean_answer = NotRun
    /\ clean_again = NotRun
    /\ use_streaming = FALSE
    /\ pc = "END"
    /\ messages = <<>>
    /\ next_action = "unset"
    /\ actions = <<>>
    /\ llm_calls = 0
    /\ last = NoneYet
    /\ MemIdle
    /\ ConcIdle

Parse ==
    /\ action_info = Unset
    /\ action_info' = parse_action_from_response(content)
    /\ UNCHANGED <<content, clean_answer, clean_again, loopVars, memVars, concVars>>

Extract ==
    /\ clean_answer = NotRun
    /\ clean_answer' = extract_final_answer(content)
    /\ UNCHANGED <<content, action_info, clean_again, loopVars, memVars, concVars>>

ExtractAgain ==
    /\ clean_answer.st = "returned"
    /\ clean_again = NotRun
    /\ clean_again' = extract_final_answer(clean_answer.value)
    /\ UNCHANGED <<content, action_info, clean_answer, loopVars, memVars, concVars>>

NextText == Parse \/ Extract \/ ExtractAgain

SpecText == InitText /\ [][NextText]_vars

-----------------------------------------------------------------------------
(* Response parser and final-answer cleaner: properties (SpecText)          *)

\* the marker begins a line of the text
HasLine(s, marker) ==
    \E p \in 1..Len(s) : s[p] = marker /\ (p = 1 \/ s[p - 1] = "\n")

\* some non-whitespace character comes after an occurrence of the marker
FollowedByText(s, marker) ==
    \E p \in 1..Len(s) :
        s[p] = marker /\ \E q \in (p + 1)..Len(s) : ~IsSpace(s[q])

Populated(info) ==
    /\ info.st = "dict"
    /\ info.action # <<>> /\ info.action_input # <<>>
    /\ IsTrimmed(info.action) /\ IsTrimmed(info.action_input)

\* C1 as stated: whenever the text holds both an Action: line and an
\* Action Input: line, the parser returns an action with both fields
\* non-empty and trimmed.
C1_AnyTextWithBothMarkers ==
    (action_info # Unset /\ HasLine(content, "Action:")
        /\ HasLine(content, "Action Input:"))
        => Populated(action_info)

\* C1 amended: when each of the two markers is followed by some
\* non-whitespace character, the parser returns an action with both fields
\* non-empty and trimmed; when only whitespace (or nothing) follows one of
\* them up to the end of the text, the result is None or has an empty field.
C1_MarkersFollowedByText ==
    (action_info # Unset /\ HasLine(content, "Action:")
        /\ HasLine(content, "Action Input:"))
        => IF FollowedByText(content, "Action:")
              /\ FollowedByText(content, "Action Input:")
           THEN Populated(action_info)
           ELSE \/ action_info.st = "none"
                \/ action_info.action = <<>>
                \/ action_info.action_input = <<>>

\* C1 witness: both markers are followed by text, the text ends in
\* whitespace that the parser had to trim, and an action came back.
C1_Witness ==
    /\ action_info.st = "dict"
    /\ HasLine(content, "Action:") /\ HasLine(content, "Action Input:")
    /\ FollowedByText(content, "Action:")
    /\ FollowedByText(content, "Action Input:")
    /\ Len(content) = MaxLen /\ IsSpace(content[Len(content)])
    /\ action_info.action_input = <<"x">>

\* the trimmed remainder of the first line of s that carries the marker
FirstLineRest(s, marker) ==
    LET at == {p \in 1..Len(s) : s[p] = marker}
        p == CHOOSE q \in at : \A r \in at : q <= r
    IN  strip(SubSeq(s, p + 1, DotRunEnd(s, p, FALSE)))

\* C27 as stated: the action name returned is the trimmed remainder of the
\* first line that carries Action: and the input returned is the trimmed
\* remainder of the first Action Input: line; nothing from a later line
\* becomes part of either field.
C27_FieldsAreLineBounded ==
    action_info.st = "dict" =>
        /\ action_info.action = FirstLineRest(content, "Action:")
        /\ action_info.action_input = FirstLineRest(content, "Action Input:")

\* C3 as stated: for a text with no Final Answer: marker, no Thought:
\* segment and no code block, extract_final_answer returns the trimmed text.
C3_PlainTextReturnedTrimmed ==
    (clean_answer # NotRun
        /\ ~Has(content, "Final Answer:") /\ ~Has(content, "Thought:")
        /\ ~Has(content, "FENCE"))
        => clean_answer = Returned(strip(content))

\* the text after the first occurrence of the marker
AfterFirst(s, marker) ==
    LET at == {p \in 1..Len(s) : s[p] = marker}
        p == CHOOSE q \in at : \A r \in at : q <= r
    IN  SubSeq(s, p + 1, Len(s))

\* C4 as stated: for a text that holds a Final Answer: marker,
\* extract_final_answer returns the trimmed text after the first marker.
C4_AnswerIsTextAfterMarker ==
    (clean_answer # NotRun /\ Has(content, "Final Answer:"))
        => clean_answer = Returned(strip(AfterFirst(content, "Final Answer:")))

\* C5 as stated: cleaning the cleaner's own output returns it unchanged.
C5_CleaningIsIdempotent ==
    clean_again # NotRun => clean_again = clean_answer

-----------------------------------------------------------------------------
(* Decision loop and tool node: properties (Spec, SpecTool)                 *)

\* C2 as stated: when the agent node (either one) is given prose with no
\* Action lines and no Final Answer: marker, the run goes to END without
\* raising and with exactly one assistant turn appended.
C2_ProseEndsTheTurn ==
    (last.node = "agent" /\ IsProse(last.response))
        => /\ pc = "END"
           /\ Len(messages) = last.before + 1
           /\ messages[Len(messages)].type = "ai"

WellFormedUnknown(a) == ~Malformed(a) /\ a.action \notin RegisteredTools

\* C9: after tool_node ran an action that names an unregistered tool, no
\* exception has escaped, the action's tool message is an error text that
\* holds the tool name, and the agent node runs next.
C9_UnknownToolIsAnObservation ==
    (last.node = "tool_node"
        /\ \E i \in 1..Len(last.acts) : WellFormedUnknown(last.acts[i]))
        => /\ pc = "agent"
           /\ Len(messages) = last.before + Len(last.acts)
           /\ \A i \in 1..Len(last.acts) :
                WellFormedUnknown(last.acts[i])
                    => LET m == messages[last.before + i]
                       IN  /\ m.type = "tool"
                           /\ m.content[1] \in {"Error: unknown tool ",
                                                "Error: Failed to execute tool "}
                           /\ Contains(m.content, last.acts[i].action)

\* C9 witness: execute_tool raised for an unregistered name and the loop
\* is back at the agent node.
C9_Witness ==
    /\ last.node = "tool_node" /\ pc = "agent"
    /\ Len(last.acts) = 1
    /\ last.acts[1].action = <<"no_such_tool">>
    /\ last.outcomes[1].raised

NameOr(a, unnamed) == IF a.action # <<>> THEN a.action ELSE unnamed

ToolTurns(unnamed) ==
    last.node = "tool_node"
        => /\ pc = "agent"
           /\ Len(messages) = last.before + Len(last.acts)
           /\ \A i \in 1..Len(last.acts) :
                LET m == messages[last.before + i]
                IN  /\ m.type = "tool"
                    /\ m.tool_call_id = NameOr(last.acts[i], unnamed)
                    /\ last.outcomes[i].raised
                         => StartsWith(m.content, <<"Error: Failed to execute tool ">>)


\* C10 as stated: tool_node does not raise and appends one tool message per
\* pending action, in order, each with tool_call_id equal to the action's
\* tool name, and an Error: text for a handler that raised.
C10_IdIsAlwaysToolName == ToolTurns(<<>>)

\* C10 amended: as stated, except that the tool message of an action whose
\* tool name is empty carries the tool_call_id "unknown".
C10_OneToolTurnPerAction == ToolTurns(<<"unknown">>)

\* C10 witness: two pending actions, the first handler raised, the second
\* action has no tool name, and the loop is back at the agent node.
C10_Witness ==
    /\ last.node = "tool_node" /\ pc = "agent"
    /\ Len(last.acts) = 2
    /\ ~Malformed(last.acts[1]) /\ last.outcomes[1].raised
    /\ last.acts[2].action = <<>>

NoAction(r) == parse_action_from_response(r).st = "none"

StreamingAnswered ==
    last.node = "agent" /\ use_streaming /\ NoAction(last.response)

\* C12: in streaming mode, when the decision call's output holds no action,
\* the node appends exactly one assistant turn and sets next_action to
\* respond, whether the stream completes or fails; when the stream fails
\* the turn is the output of the decision call made before.
C12_StreamingAlwaysAnswers ==
    StreamingAnswered
        => /\ pc = "END"
           /\ next_action = "respond"
           /\ Len(messages) = last.before + 1
           /\ messages[Len(messages)].type = "ai"
           /\ last.stream # "completed"
                => messages[Len(messages)] = AIMessage(last.response)

\* C12 witness: the stream failed after a decision call that gave a final
\* answer, and the turn ended with that output appended.
C12_Witness ==
    /\ StreamingAnswered /\ last.stream = "failed"
    /\ Has(last.response, "Final Answer:")
    /\ pc = "END"
    /\ messages[Len(messages)].content = last.response

\* C13 as stated: for an output with no action that agent_node answers,
\* and a stream that completes, the turn agent_node_with_streaming appends
\* is the turn agent_node appends for the same output (the cleaned answer).
C13_StreamingEqualsNonStreaming ==
    (StreamingAnswered /\ last.stream = "completed"
        /\ ~agent_node(last.response).raised)
        => <<messages[Len(messages)]>> = agent_node(last.response).messages

\* C15 as stated: a pass through the agent node calls the model backend
\* exactly once, in both modes.
C15_OneBackendCallPerPass ==
    last.node = "agent" => llm_calls = last.calls_before + 1

\* C15 amended: a pass makes exactly one decision call; the streaming node,
\* when the output holds no action, calls the model a second time to stream
\* the answer (unless the stream is never started), so such a pass makes two
\* calls; every other pass makes one.
C15_OneDecisionCallPlusStream ==
    last.node = "agent"
        => llm_calls = last.calls_before + 1
                         + (IF StreamingAnswered /\ last.stream # "not_started"
                            THEN 1 ELSE 0)

\* C15 witness: a tool round, then a streamed final answer: the last pass
\* made two model calls.
C15_Witness ==
    /\ StreamingAnswered /\ last.stream = "completed" /\ pc = "END"
    /\ llm_calls = last.calls_before + 2
    /\ last.calls_before >= 1

\* what the spec calls the cleaned answer of an output that holds no
\* Thought: segment or code block outside its final answer
CleanedAnswer(r) ==
    IF Has(r, "Final Answer:") THEN strip(AfterFirst(r, "Final Answer:"))
    ELSE strip(r)

\* C16 as stated: when the parser finds an action the agent node appends
\* the raw output, sets next_action to call_tool and records that one action;
\* otherwise it sets next_action to respond, appends one assistant turn
\* holding the cleaned answer and leaves the pending actions as they were.
C16_DecidingStepOutput ==
    last.node = "agent"
        => LET info == parse_action_from_response(last.response)
           IN  /\ pc # "raised"
               /\ Len(messages) = last.before + 1
               /\ IF info.st = "dict"
                  THEN /\ messages[Len(messages)] = AIMessage(last.response)
                       /\ next_action = "call_tool"
                       /\ actions = <<info>>
                  ELSE /\ messages[Len(messages)]
                            = AIMessage(CleanedAnswer(last.response))
                       /\ next_action = "respond"
                       /\ actions = last.acts

NextActions == {"call_tool", "respond", "unset", "other"}

\* C17: after the agent node, tool_node runs next exactly when next_action
\* is call_tool and otherwise the turn ends; after tool_node, which sets
\* next_action to respond, the agent node runs next; from END no node runs.
C17_Routing ==
    /\ [](/\ \A na \in NextActions :
               decide_next_step(na) = "tool_node" <=> na = "call_tool"
          /\ last.node = "tool_node" => (pc = "agent" /\ next_action = "respond")
          /\ (last.node = "agent" /\ pc # "raised")
                => /\ pc = "tool_node" <=> next_action = "call_tool"
                   /\ pc # "tool_node" => pc = "END")
    /\ [][/\ pc = "agent" => pc' \in {"tool_node", "END", "raised"}
          /\ pc = "tool_node" => pc' = "agent"
          /\ pc \notin {"agent", "tool_node"} => UNCHANGED vars]_vars

\* C17 witness: a turn that went agent, tool_node, agent and ended.
C17_Witness ==
    /\ pc = "END" /\ last.node = "agent"
    /\ \E i \in 1..Len(messages) : messages[i].type = "tool"

ToolRounds == Cardinality({i \in 1..Len(messages) : messages[i].type = "tool"})

\* C18: the turn is at END only after a model output without an action;
\* an output with an action leads to tool_node and back to the agent node
\* however many rounds were made, so the rounds are bounded only by the
\* model; and when the model does give an output without an action, and no
\* exception escapes the agent node (the extractor returns), the turn
\* reaches END: every run reaches END or ends in an exception.
C18_EndsExactlyOnNonAction ==
    /\ [](/\ pc = "END" => (last.node = "agent" /\ NoAction(last.response))
          /\ (last.node = "agent" /\ NoAction(last.response))
                => pc \in {"END", "raised"}
          /\ (last.node = "agent" /\ ~NoAction(last.response))
                => pc = "tool_node"
          /\ last.node = "tool_node" => pc = "agent")
    /\ <>(pc = "END" \/ pc = "raised")

\* C18 witness: the turn ended after as many tool rounds as the model's
\* outputs allowed, one for each call but the last.
C18_Witness ==
    /\ pc = "END"
    /\ ToolRounds = MaxCalls - 1
    /\ ~use_streaming

\* every tool message comes after an assistant turn, with nothing but tool
\* messages in between, and carries the action name parsed from that turn
\* (unnamed when that name is empty) as its tool_call_id
ToolTurnsFollowRequest(unnamed) ==
    \A i \in 1..Len(messages) :
        messages[i].type = "tool"
            => \E j \in 1..(i - 1) :
                  /\ messages[j].type = "ai"
                  /\ \A k \in (j + 1)..(i - 1) : messages[k].type = "tool"
                  /\ LET info == parse_action_from_response(messages[j].content)
                     IN  /\ info.st = "dict"
                         /\ messages[i].tool_call_id = NameOr(info, unnamed)

AppendOnly ==
    Len(messages') >= Len(messages)
        /\ SubSeq(messages', 1, Len(messages)) = messages

\* C19 as stated: messages are only appended, and every tool message
\* follows the assistant turn whose parsed action name is its tool_call_id.
C19_ToolTurnNamesItsAction ==
    [][AppendOnly]_vars /\ []ToolTurnsFollowRequest(<<>>)

\* C19 amended: as stated, except that the tool message answering a turn
\* whose parsed action name is empty carries the tool_call_id "unknown".
C19_ToolTurnFollowsItsRequest ==
    [][AppendOnly]_vars /\ []ToolTurnsFollowRequest(<<"unknown">>)

\* C19 witness: two tool rounds, the first answering a named action, the
\* second answering a turn whose action name is empty.
C19_Witness ==
    /\ Len(messages) >= 5
    /\ messages[3].type = "tool" /\ messages[3].tool_call_id # <<"unknown">>
    /\ messages[5].type = "tool" /\ messages[5].tool_call_id = <<"unknown">>
    /\ parse_action_from_response(messages[4].content).action = <<>>

\* C14 as stated: after tool_node ran, the pending-action list is empty.
C14_ActionsClearedAfterToolNode ==
    (last.node = "tool_node" /\ pc = "agent") => actions = <<>>

-----------------------------------------------------------------------------
(* Memory tools: properties (SpecMem)                                       *)

Retrieved == mem_last.op = "retrieve_memory" /\ mem_last.parsed.ok

ForeignUpdate ==
    /\ mem_last.op = "update_memory"
    /\ \E r \in mem_last.before :
          r.id = mem_last.input.memory_id /\ r.user_id # mem_last.input.user_id

\* C7: update_memory on the id of a row that belongs to another owner
\* answers "not found or access denied" and leaves the table as it was.
C7_ForeignUpdateIsNotFound ==
    ForeignUpdate =>
        /\ mem_last.result.kind = "not_found"
        /\ mem_last.result.text = "Memory {memory_id} not found or access denied"
        /\ store = mem_last.before

\* C7 witness: a row of u1 exists, stored and updated before, and u2 asked
\* to update it.
C7_Witness ==
    /\ ForeignUpdate
    /\ mem_last.input.user_id = <<"u2">>
    /\ mem_last.result.kind = "not_found"
    /\ \E r \in store : r.id = mem_last.input.memory_id /\ r.user_id = <<"u1">>

\* the rows the last call returned, created or changed all belong to owner u
ScopedTo(u) ==
    /\ \A r \in store \ mem_last.before : r.user_id = u
    /\ \A r \in mem_last.before \ store : r.user_id = u
    /\ \A i \in 1..Len(mem_last.result.rows) :
          \E r \in store : r.id = mem_last.result.rows[i].id /\ r.user_id = u

\* C8: a call whose statement runs with user_id u (store_memory and
\* retrieve_memory trim the user_id of their input first) returns, creates
\* and changes only rows whose owner is u.
C8_OwnerIsolation ==
    mem_last.op # "none" => ScopedTo(mem_last.user_id)

\* C8 witness: rows of u1 and of u2 are stored, both above the threshold,
\* and a retrieve_memory call for u1 returned a row.
C8_Witness ==
    /\ Retrieved
    /\ mem_last.user_id = <<"u1">>
    /\ \E r \in store :
          /\ r.user_id = <<"u2">>
          /\ PgGreater(similarity(r.embedding, mem_last.embedding),
                       mem_last.parsed.similarity_threshold)
    /\ Len(mem_last.result.rows) >= 1

\* C11: a store_memory or retrieve_memory call whose input is not JSON
\* returns the message "ERROR: Invalid JSON format ...", asks nothing of the
\* embedding provider or of the database, and leaves the table as it was.
C11_NotJsonIsRejectedUntouched ==
    (mem_last.op \in {"store_memory", "retrieve_memory"} /\ ~mem_last.input.json)
        => /\ mem_last.result.kind = "error"
           /\ mem_last.result.text = "ERROR: Invalid JSON format"
           /\ mem_last.calls = <<>>
           /\ store = mem_last.before

\* C11 witness: the table holds a row and retrieve_memory was given a text
\* that is not JSON.
C11_Witness ==
    /\ mem_last.op = "retrieve_memory" /\ ~mem_last.input.json
    /\ mem_last.result.kind = "error"
    /\ store # {}

\* an update_memory call for which no row has both the id and the owner
UnmatchedUpdate ==
    /\ mem_last.op = "update_memory"
    /\ ~\E r \in mem_last.before :
          r.id = mem_last.input.memory_id /\ r.user_id = mem_last.input.user_id

\* C21: an update_memory call that matches no row of the caller gets the
\* same answer, built from the id it asked for alone, whether no row has
\* that id or another owner's row has it, and the table is as it was; the
\* answer and the table's change are the same with the other owner's row
\* taken out of the table.
C21_NotFoundDoesNotTellWhy ==
    UnmatchedUpdate =>
        LET in == mem_last.input
        IN  /\ mem_last.result
                 = Result("not_found", "Memory {memory_id} not found or access denied",
                          in.memory_id, <<>>)
            /\ store = mem_last.before
            /\ \A r \in mem_last.before :
                  r.id = in.memory_id
                  => LET without == mem_last.before \ {r}
                     IN  /\ update_matched(without, in.memory_id, in.user_id)
                              = update_matched(mem_last.before, in.memory_id, in.user_id)
                         /\ update_memory(without, in.memory_id, in.user_id,
                                          in.new_content, mem_last.embedding, clock)
                              = without

\* C21 witness: u1 asked to update the id of a row of u2 and was told
\* not found.
C21_Witness ==
    /\ UnmatchedUpdate
    /\ mem_last.input.user_id = <<"u1">>
    /\ mem_last.result.kind = "not_found"
    /\ \E r \in store : r.id = mem_last.input.memory_id /\ r.user_id = <<"u2">>

\* C22 as stated: no row of the table holds the zero vector get_embedding
\* falls back to, and a retrieve_memory call whose query was embedded as
\* the zero vector returns no rows.
C22_ZeroVectorIsNeverUsed ==
    /\ \A r \in store : r.embedding # ZeroVector
    /\ (Retrieved /\ mem_last.embedding = ZeroVector)
          => mem_last.result.rows = <<>>

SuccessfulUpdate ==
    mem_last.op = "update_memory" /\ mem_last.result.kind = "updated"

\* C23: a successful update_memory call replaces exactly one row, the one
\* with the id and owner asked for, by a row with the same id, owner and
\* importance, the new content, the new embedding and a later timestamp;
\* every other row is as it was and no row is added or removed.  Every
\* other call leaves each row that was in the table as it was.
C23_UpdateChangesOneRecordOnly ==
    /\ SuccessfulUpdate =>
          \E r \in mem_last.before :
             /\ r.id = mem_last.input.memory_id
             /\ r.user_id = mem_last.input.user_id
             /\ \E created_at \in (r.created_at + 1)..clock :
                   store = (mem_last.before \ {r})
                             \cup {Row(r.id, r.user_id, mem_last.input.new_content,
                                       mem_last.embedding, r.importance, created_at)}
             /\ Cardinality(store) = Cardinality(mem_last.before)
    /\ mem_last.op \notin {"update_memory", "none"}
          => mem_last.before \subseteq store
    /\ \A r, o \in store : r.id = o.id => r = o

\* C23 witness: a row of high importance was updated while another row was
\* in the table.
C23_Witness ==
    /\ SuccessfulUpdate
    /\ Cardinality(store) = 2
    /\ \E r \in store : /\ r.id = mem_last.input.memory_id
                         /\ r.importance = "high"
                         /\ r.content = mem_last.input.new_content

\* C24: a store_memory call that succeeds adds exactly one row, with an id
\* no row had, the trimmed user_id and content of its input and the
\* importance given (medium when none is given), answers with that id and
\* leaves the rows that were there as they were; a call the validation
\* rejects leaves the table as it was.
C24_StoreAddsOneRecord ==
    mem_last.op = "store_memory" =>
        LET in == mem_last.input
        IN  IF mem_last.result.kind = "stored"
            THEN /\ mem_last.before \subseteq store
                 /\ \E n \in store :
                       /\ store \ mem_last.before = {n}
                       /\ n.id = mem_last.result.id
                       /\ \A r \in mem_last.before : r.id # n.id
                       /\ n.user_id = strip(in.user_id)
                       /\ n.content = strip(in.content)
                       /\ n.importance = IF in.importance = Absent THEN "medium"
                                         ELSE in.importance[1]
            ELSE /\ mem_last.result.kind \in {"error", "raised"}
                 /\ mem_last.calls = <<>>
                 /\ store = mem_last.before

\* C24 witness: content and user_id came with blanks around them and the
\* row was added to a table that held a row already.
C24_Witness ==
    /\ mem_last.op = "store_memory" /\ mem_last.result.kind = "stored"
    /\ mem_last.before # {}
    /\ \/ mem_last.input.content = <<" ", "b", " ">>
       \/ mem_last.input.user_id = <<" ", "u1">>

IsPositiveInteger(v) ==
    ~v.given \/ (v.kind \in {"number", "numstring"} /\ v.n > 0 /\ v.n % 100 = 0)

IsThreshold(v) ==
    ~v.given \/ (v.kind \in {"number", "numstring"} /\ 0 <= v.n /\ v.n <= 100)

\* a retrieve_memory call whose input is an object with a query and a user_id
\* that are not blank
RetrieveWithQuery ==
    /\ mem_last.op = "retrieve_memory"
    /\ IsObject(mem_last.input)
    /\ mem_last.input.query # Absent /\ strip(mem_last.input.query) # <<>>
    /\ mem_last.input.user_id # Absent /\ strip(mem_last.input.user_id) # <<>>

\* C25 as stated: a retrieve_memory input is accepted only if top_k is a
\* positive integer and similarity_threshold a number in [0,1] (3 and 0.7
\* when omitted); any other top_k or threshold is answered with an ERROR
\* string, without raising and without a statement on the table.
C25_OnlyPositiveIntegerTopKAccepted ==
    RetrieveWithQuery =>
        \/ /\ IsPositiveInteger(mem_last.input.top_k)
           /\ IsThreshold(mem_last.input.similarity_threshold)
           /\ mem_last.parsed.ok
           /\ mem_last.input.top_k.given
                 \/ mem_last.parsed.top_k = DefaultTopK
           /\ mem_last.input.similarity_threshold.given
                 \/ mem_last.parsed.similarity_threshold = DefaultThreshold
        \/ /\ ~(/\ IsPositiveInteger(mem_last.input.top_k)
                 /\ IsThreshold(mem_last.input.similarity_threshold))
           /\ mem_last.result.kind = "error"
           /\ mem_last.calls = <<>>

StoreErrors ==
    {"ERROR: Invalid JSON format", "ERROR: Missing required field 'content'",
     "ERROR: Missing required field 'user_id'", "ERROR: Invalid importance level",
     "ERROR: Content cannot be empty", "ERROR: User ID cannot be empty"}

\* C26 as stated: for every raw input the store_memory validation returns
\* either valid data with an empty error or no data with an ERROR message;
\* it never raises, whatever the JSON parses to and whatever the types of
\* content, user_id and importance, and a missing required field is answered
\* with the Missing required field message.
C26_StoreValidationIsTotal ==
    mem_last.op = "store_memory" =>
        /\ mem_last.parsed.raised = ""
        /\ IF mem_last.parsed.ok THEN mem_last.parsed.error = ""
           ELSE /\ mem_last.parsed.error \in StoreErrors
                /\ mem_last.parsed.content = <<>> /\ mem_last.parsed.user_id = <<>>
        /\ /\ IsObject(mem_last.input)
           /\ mem_last.input.content = Absent \/ mem_last.input.user_id = Absent
           => mem_last.parsed.error \in {"ERROR: Missing required field 'content'",
                                         "ERROR: Missing required field 'user_id'"}

\* position of the UPDATE of update call u among the statements the
\* connection ran
Position(u) == CHOOSE k \in 1..Len(conn.order) : conn.order[k] = u

\* C28: whatever the interleaving of two update_memory calls on the same id
\* and owner, the row holds the content and the embedding of one and the
\* same of the updates that ran; and a retrieve_memory call that started
\* after an update call returned success gets the row as that update or an
\* update the connection ran later wrote it.
C28_ConcurrentUpdatesAreSerialized ==
    /\ \A r \in store :
          (r.id = SharedId /\ conn.order # <<>>) =>
              \E k \in 1..Len(conn.order) :
                 /\ r.content = running[conn.order[k]].content
                 /\ r.embedding = running[conn.order[k]].embedding
    /\ running[Reader].pc = "done" =>
          \A u \in running[Reader].after :
             \E k \in Position(u)..Len(conn.order), i \in 1..Len(running[Reader].rows) :
                /\ running[Reader].rows[i].id = SharedId
                /\ running[Reader].rows[i].content = running[conn.order[k]].content

\* C28 witness: both updates ran, with different contents; the reader
\* started after one of them had returned and got the row while the other
\* had run its UPDATE and not yet committed.
C28_Witness ==
    /\ Len(conn.order) = 2
    /\ running["t1"].content # running["t2"].content
    /\ running[Reader].pc = "done"
    /\ running[Reader].after # {}
    /\ running[Reader].rows # <<>>
    /\ \E u \in Updaters : running[u].pc = "commit"

\* thread t took the step: its node started or returned
Stepped(t) == threads'[t] # threads[t]

\* C29: in every interleaving of the node runs of two threads, a step of
\* one thread leaves the messages, next_action and pending actions of the
\* other as they were, and what a node of a thread returns is built on the
\* state of its own thread: the messages of the thread are kept and added
\* to, and tool_node answers the pending actions of its own thread, one
\* tool turn each.
C29_ThreadsAreIsolated ==
    [][\A t \in ThreadIds :
          Stepped(t) =>
             /\ \A u \in ThreadIds \ {t} : threads'[u] = threads[u]
             /\ threads[t].in_node => threads[t].passed = threads[t].state
             /\ LET before == threads[t].state
                    after == threads'[t].state
                    n == Len(before.messages)
                IN  /\ Len(after.messages) >= n
                    /\ SubSeq(after.messages, 1, n) = before.messages
                    /\ (threads[t].in_node /\ threads[t].pc = "tool_node"
                            /\ threads'[t].pc # "raised") =>
                          /\ Len(after.messages) = n + Len(before.actions)
                          /\ \A i \in 1..Len(before.actions) :
                                /\ after.messages[n + i].type = "tool"
                                /\ after.messages[n + i].tool_call_id
                                      = NameOr(before.actions[i], <<"unknown">>)
                          /\ after.actions = before.actions]_vars

\* C29 witness: thread A went through tool_node for one tool while thread B
\* is in the middle of a node with another tool pending.
C29_Witness ==
    /\ threads # NoThreads
    /\ \E i \in 1..Len(threads["A"].state.messages) :
          threads["A"].state.messages[i].type = "tool"
    /\ threads["B"].in_node /\ threads["B"].pc = "tool_node"
    /\ threads["B"].state.actions # <<>>
    /\ threads["B"].state.actions # threads["A"].state.actions

\* C20 as stated: every row of the table has content that is not empty
\* after trimming and an owner that is not empty.
C20_RecordsHaveContentAndOwner ==
    \A r \in store : strip(r.content) # <<>> /\ strip(r.user_id) # <<>>

=============================================================================
